---- MODULE Spec2Model ----
(***************************************************************************)
(* RosettaNet viewer: the HTML table parser (parseRosettaNetHtml), the     *)
(* App component's state (data, expandedIds, highlightedIds, searchTerm,   *)
(* searchMode), its event handlers, its search effect and the visibleItems *)
(* projection.                                                             *)
(*                                                                         *)
(* Text is a sequence of one-character strings, so that substring tests,   *)
(* case folding, trimming and splitting are computed and not assumed.  The *)
(* element "nbsp" stands for the single character U+00A0.                  *)
(*                                                                         *)
(* A document is what DOMParser hands to the parser: a sequence of tables, *)
(* a table a sequence of rows (tr), a row a sequence of cell texts (the    *)
(* textContent of each td).  Tables are not nested and a row's own         *)
(* textContent is the concatenation of its cells.                          *)
(*                                                                         *)
(* Three specifications share the state.  Spec is the viewer: uploads,     *)
(* loads, the tree's handlers and the search.  SpecFetch is the cloud      *)
(* selector with several fetches in flight.  SpecStore is the file store:  *)
(* encodeFilename, decodeFilename, saveFile and getFiles.                  *)
(***************************************************************************)
EXTENDS Integers, Sequences, FiniteSets, Bags, TLC

\* ------------------------------------------------------------------ text

UpperChars ==
  <<"A", "B", "C", "D", "E", "F", "G", "H", "I", "J", "K", "L", "M",
    "N", "O", "P", "Q", "R", "S", "T", "U", "V", "W", "X", "Y", "Z">>

LowerChars ==
  <<"a", "b", "c", "d", "e", "f", "g", "h", "i", "j", "k", "l", "m",
    "n", "o", "p", "q", "r", "s", "t", "u", "v", "w", "x", "y", "z">>

DigitChars == <<"0", "1", "2", "3", "4", "5", "6", "7", "8", "9">>

IsUpper(c) == \E i \in DOMAIN UpperChars : UpperChars[i] = c

IsDigit(c) == \E i \in DOMAIN DigitChars : DigitChars[i] = c

DigitValue(c) == (CHOOSE i \in DOMAIN DigitChars : DigitChars[i] = c) - 1

LowerChar(c) ==
  IF IsUpper(c)
    THEN LowerChars[CHOOSE i \in DOMAIN UpperChars : UpperChars[i] = c]
    ELSE c

\* String.prototype.toLowerCase
ToLowerCase(s) ==
  IF s = <<>> THEN <<>> ELSE [i \in 1..Len(s) |-> LowerChar(s[i])]

\* String.prototype.includes
Includes(s, t) ==
  \E i \in 0..(Len(s) - Len(t)) : SubSeq(s, i + 1, i + Len(t)) = t

\* String.prototype.startsWith
StartsWith(s, t) == Len(t) <= Len(s) /\ SubSeq(s, 1, Len(t)) = t

\* String.prototype.endsWith
EndsWith(s, t) ==
  Len(t) <= Len(s) /\ SubSeq(s, Len(s) - Len(t) + 1, Len(s)) = t

\* the white space String.prototype.trim removes (U+00A0 is white space)
IsSpace(c) == c \in {" ", "nbsp"}

RECURSIVE TrimStart(_)
TrimStart(s) ==
  IF s # <<>> /\ IsSpace(Head(s)) THEN TrimStart(Tail(s)) ELSE s

RECURSIVE TrimEnd(_)
TrimEnd(s) ==
  IF s # <<>> /\ IsSpace(s[Len(s)])
    THEN TrimEnd(SubSeq(s, 1, Len(s) - 1))
    ELSE s

\* String.prototype.trim
Trim(s) == TrimEnd(TrimStart(s))

\* s.replace(/c/g, r) for a single character c and a replacement text r
RECURSIVE ReplaceChar(_, _, _)
ReplaceChar(s, c, r) ==
  IF s = <<>> THEN <<>>
  ELSE (IF Head(s) = c THEN r ELSE <<Head(s)>>) \o ReplaceChar(Tail(s), c, r)

\* s.replace(/t/g, r) for a literal text t that is not empty: the matches
\* are taken from left to right and do not overlap
RECURSIVE ReplaceAll(_, _, _)
ReplaceAll(s, t, r) ==
  IF Len(s) < Len(t) THEN s
  ELSE IF SubSeq(s, 1, Len(t)) = t
    THEN r \o ReplaceAll(SubSeq(s, Len(t) + 1, Len(s)), t, r)
  ELSE <<Head(s)>> \o ReplaceAll(Tail(s), t, r)

\* the number of characters c in s: (s.match(/c/g) || []).length
RECURSIVE CountChar(_, _)
CountChar(s, c) ==
  IF s = <<>> THEN 0
  ELSE (IF Head(s) = c THEN 1 ELSE 0) + CountChar(Tail(s), c)

\* the index of the first c in s at or after position from, 0 when none
RECURSIVE IndexOfFrom(_, _, _)
IndexOfFrom(s, c, from) ==
  IF from > Len(s) THEN 0
  ELSE IF s[from] = c THEN from
  ELSE IndexOfFrom(s, c, from + 1)

\* String.prototype.split on a single character (the empty text splits into
\* one empty part)
RECURSIVE Split(_, _)
Split(s, c) ==
  LET k == IndexOfFrom(s, c, 1)
  IN IF k = 0 THEN <<s>>
     ELSE <<SubSeq(s, 1, k - 1)>> \o Split(SubSeq(s, k + 1, Len(s)), c)

\* the concatenation of a sequence of texts
RECURSIVE Concat(_)
Concat(ss) == IF ss = <<>> THEN <<>> ELSE Head(ss) \o Concat(Tail(ss))

\* parseInt(s, 10) of a text of digits only (NaN, for the empty text, is
\* tested by the caller before the value is used)
RECURSIVE ParseInt(_)
ParseInt(s) ==
  IF s = <<>> THEN 0
  ELSE ParseInt(SubSeq(s, 1, Len(s) - 1)) * 10 + DigitValue(s[Len(s)])

\* ---------------------------------------------------------------- parser

sName == <<"n", "a", "m", "e">>

sDefinition == <<"d", "e", "f", "i", "n", "i", "t", "i", "o", "n">>

sUnformatted == <<"u", "n", "f", "o", "r", "m", "a", "t", "t", "e", "d">>

sText == <<"t", "e", "x", "t">>

sTreeMark == <<"|", "-", "-">>

\* tr.textContent
RowText(tr) == Concat(tr)

\* /^unformatted\s*text\.?$/i.test(def)
IsUnformattedText(def) ==
  LET l == ToLowerCase(def)
  IN /\ StartsWith(l, sUnformatted)
     /\ TrimStart(SubSeq(l, Len(sUnformatted) + 1, Len(l)))
          \in {sText, sText \o <<".">>}

\* definitions[name] = def
PutDef(definitions, name, def) ==
  [k \in (DOMAIN definitions) \cup {name} |->
     IF k = name THEN def ELSE definitions[k]]

\* rows.some(tr => text.includes('name') && text.includes('definition'))
IsDefTable(table) ==
  \E i \in DOMAIN table :
    LET text == ToLowerCase(RowText(table[i]))
    IN Includes(text, sName) /\ Includes(text, sDefinition)

\* the rows.forEach of a definition table
RECURSIVE DefRows(_, _)
DefRows(rows, definitions) ==
  IF rows = <<>> THEN definitions
  ELSE LET tds == Head(rows)
           name == Trim(tds[1])
           def0 == Trim(tds[2])
           def == IF IsUnformattedText(def0) THEN <<>> ELSE def0
       IN DefRows(Tail(rows),
                  IF Len(tds) >= 2 /\ name # <<>> /\ ToLowerCase(name) # sName
                    THEN PutDef(definitions, name, def)
                    ELSE definitions)

\* the first tables.forEach: the dictionary Name -> Definition
RECURSIVE ParseDefinitions(_, _)
ParseDefinitions(tables, definitions) ==
  IF tables = <<>> THEN definitions
  ELSE ParseDefinitions(Tail(tables),
                        IF IsDefTable(Head(tables))
                          THEN DefRows(Head(tables), definitions)
                          ELSE definitions)

\* the number of rows of a table whose text includes '|--'
TreeScore(table) ==
  Cardinality({i \in DOMAIN table : Includes(RowText(table[i]), sTreeMark)})

\* the second tables.forEach: the index of the table of more than five rows
\* with the highest score above 0 (the first of them), 0 when there is none
RECURSIVE ScoreTables(_, _, _, _)
ScoreTables(tables, i, mainTable, maxTreeScore) ==
  IF i > Len(tables) THEN mainTable
  ELSE IF Len(tables[i]) > 5 /\ TreeScore(tables[i]) > maxTreeScore
    THEN ScoreTables(tables, i + 1, i, TreeScore(tables[i]))
    ELSE ScoreTables(tables, i + 1, mainTable, maxTreeScore)

\* tables.sort((a, b) => b.rows - a.rows)[0]: the first table with the most
\* rows (the sort is stable), 0 when there is no table
LargestTable(tables) ==
  IF tables = <<>> THEN 0
  ELSE CHOOSE i \in DOMAIN tables :
         /\ \A j \in DOMAIN tables : Len(tables[j]) <= Len(tables[i])
         /\ \A j \in 1..(i - 1) : Len(tables[j]) < Len(tables[i])

\* the index of mainTable, 0 when the parser throws
MainTable(tables) ==
  LET scored == ScoreTables(tables, 1, 0, 0)
  IN IF scored # 0 THEN scored ELSE LargestTable(tables)

\* rawNameText.replace(/[|\-]/g, '').trim()
CleanName(rawNameText) ==
  Trim(SelectSeq(rawNameText, LAMBDA c : c \notin {"|", "-"}))

\* a truthy definitions[key]: the key is present and its text is not empty
HasDefinition(definitions, key) ==
  key \in DOMAIN definitions /\ definitions[key] # <<>>

\* the description lookup: full name, then parts[0], then parts[1]
Description(definitions, cleanName) ==
  LET parts == Split(cleanName, ".")
  IN IF HasDefinition(definitions, cleanName) THEN definitions[cleanName]
     ELSE IF Len(parts) > 0 /\ HasDefinition(definitions, parts[1])
       THEN definitions[parts[1]]
     ELSE IF Len(parts) > 1 /\ HasDefinition(definitions, parts[2])
       THEN definitions[parts[2]]
     ELSE <<>>

\* a variant of PutParentId that keeps the first id stored for a level; C2
\* does not hold of it
PutParentId_KeepFirst(parentIds, level, id) ==
  IF level \in DOMAIN parentIds THEN parentIds
  ELSE [l \in (DOMAIN parentIds) \cup {level} |->
          IF l = level THEN id ELSE parentIds[l]]

\* parentIds[level] = id
PutParentId(parentIds, level, id) ==
  [l \in (DOMAIN parentIds) \cup {level} |->
     IF l = level THEN id ELSE parentIds[l]]

\* parentIds[level - 1] !== undefined ? parentIds[level - 1] : 0
ParentIdAt(parentIds, level) ==
  IF (level - 1) \in DOMAIN parentIds THEN parentIds[level - 1] ELSE 0

\* the rows.forEach of the main table: rawData, a sequence of
\* <<id, parentId, fieldNo, level, name, description>>
RECURSIVE BuildRows(_, _, _, _)
BuildRows(rows, parentIds, definitions, rawData) ==
  IF rows = <<>> THEN rawData
  ELSE
    LET tds == Head(rows)
        fieldNoStr == Trim(tds[1])
        cleanIdStr == SelectSeq(fieldNoStr, IsDigit)
        id == ParseInt(cleanIdStr)
        rawNameText == ReplaceChar(tds[3], "nbsp", <<" ">>)
        level == CountChar(rawNameText, "|")
        cleanName2 == CleanName(rawNameText)
        cleanName == IF cleanName2 = <<>> /\ Len(tds) > 3
                       THEN CleanName(tds[4])
                       ELSE cleanName2
        parentId == ParentIdAt(parentIds, level)
        description == Description(definitions, cleanName)
    IN IF Len(tds) < 3 \/ cleanIdStr = <<>>
         THEN BuildRows(Tail(rows), parentIds, definitions, rawData)
         ELSE BuildRows(Tail(rows), PutParentId(parentIds, level, id),
                        definitions,
                        Append(rawData, <<id, parentId, fieldNoStr, level,
                                          cleanName, description>>))

\* a variant of parseRosettaNetHtml that also throws when the main table
\* gives no row; C12 does not hold of it
parseRosettaNetHtml_ThrowsOnNoRows(doc) ==
  LET tables == doc
      definitions == ParseDefinitions(tables, <<>>)
      mainTable == MainTable(tables)
  IN IF mainTable = 0
          \/ BuildRows(tables[mainTable], (-1 :> 0), definitions, <<>>) = <<>>
       THEN [threw |-> TRUE, rawData |-> <<>>]
       ELSE [threw |-> FALSE,
             rawData |-> BuildRows(tables[mainTable], (-1 :> 0),
                                   definitions, <<>>)]

\* parseRosettaNetHtml: threw is TRUE when no table is found
parseRosettaNetHtml(doc) ==
  LET tables == doc
      definitions == ParseDefinitions(tables, <<>>)
      mainTable == MainTable(tables)
  IN IF mainTable = 0
       THEN [threw |-> TRUE, rawData |-> <<>>]
       ELSE [threw |-> FALSE,
             rawData |-> BuildRows(tables[mainTable], (-1 :> 0),
                                   definitions, <<>>)]

\* ------------------------------------------------------ visibility, search

sPip == <<"P", "i", "p">>

sChoice == <<"C", "h", "o", "i", "c", "e">>

sParenChoice == <<"(", "C", "h", "o", "i", "c", "e", ")">>

\* handleDataLoaded's parsedData.map: one record per rawData tuple
FormatItem(item) ==
  [id |-> item[1], parentId |-> item[2], fieldNo |-> item[3],
   level |-> item[4], name |-> item[5], description |-> item[6]]

\* data.some(child => child.parentId === id)
HasChildren(items, id) == \E i \in DOMAIN items : items[i].parentId = id

\* data.filter(d => d.parentId === parentId)
Children(items, parentId) ==
  SelectSeq(items, LAMBDA d : d.parentId = parentId)

\* new Map(data.map(d => [d.id, d])).get(id): the last node with that id,
\* wrapped in a sequence (<<>> when there is none)
IdMapGet(items, id) ==
  LET same == SelectSeq(items, LAMBDA d : d.id = id)
  IN IF same = <<>> THEN <<>> ELSE <<same[Len(same)]>>

\* data.find(d => d.id === id): the first node with that id, wrapped in a
\* sequence (<<>> when there is none)
FindById(items, id) ==
  LET same == SelectSeq(items, LAMBDA d : d.id = id)
  IN IF same = <<>> THEN <<>> ELSE <<Head(same)>>

\* the while loop of visibleItems for one item: "visible" (return true),
\* "hidden" (return false) or "loops".  The loop's only variable is
\* currentParentId, which takes ids of items: once it has run more
\* iterations than there are items a value has come back, and the loop, which
\* reads nothing else, repeats for ever.
RECURSIVE VisibleWalk(_, _, _, _)
VisibleWalk(items, expanded, currentParentId, iterations) ==
  IF currentParentId = 0 THEN "visible"
  ELSE IF currentParentId \notin expanded THEN "hidden"
  ELSE IF IdMapGet(items, currentParentId) = <<>> THEN "hidden"
  ELSE IF iterations > Len(items) THEN "loops"
  ELSE VisibleWalk(items, expanded,
                   IdMapGet(items, currentParentId)[1].parentId,
                   iterations + 1)

\* the callback of data.filter in visibleItems
ItemVisibility(items, expanded, item) ==
  IF item.parentId = 0 THEN "visible"
  ELSE VisibleWalk(items, expanded, item.parentId, 0)

\* visibleItems: returns is FALSE when the filter never returns
visibleItems(items, expanded) ==
  IF \E i \in DOMAIN items : ItemVisibility(items, expanded, items[i]) = "loops"
    THEN [returns |-> FALSE, items |-> <<>>]
    ELSE [returns |-> TRUE,
          items |-> SelectSeq(items, LAMBDA d :
                      ItemVisibility(items, expanded, d) = "visible")]

\* expandAll's allParentIds
AllParentIds(items) ==
  {items[i].id : i \in {j \in DOMAIN items : HasChildren(items, items[j].id)}}

\* trimmedTerm.includes('/') || trimmedTerm.startsWith('Pip')
IsPathTerm(trimmedTerm) ==
  Includes(trimmedTerm, <<"/">>) \/ StartsWith(trimmedTerm, sPip)

\* a variant of StripPipPrefix that removes nothing; C1 does not hold of it
StripPipPrefix_Kept(path) == path

\* path.replace(/^\/?Pip[^\/]+\//, '')
StripPipPrefix(path) ==
  LET start == IF StartsWith(path, <<"/">>) THEN 2 ELSE 1
      slash == IndexOfFrom(path, "/", start + 3)
  IN IF /\ Len(path) >= start + 2
        /\ SubSeq(path, start, start + 2) = sPip
        /\ slash > start + 3
       THEN SubSeq(path, slash + 1, Len(path))
       ELSE path

\* the index of the first character at or after from that is no digit
RECURSIVE SkipDigits(_, _)
SkipDigits(s, from) ==
  IF from <= Len(s) /\ IsDigit(s[from]) THEN SkipDigits(s, from + 1) ELSE from

\* path.replace(/\[\d*\]/g, "")
RECURSIVE StripIndexes(_)
StripIndexes(s) ==
  IF s = <<>> THEN <<>>
  ELSE LET close == SkipDigits(s, 2)
       IN IF Head(s) = "[" /\ close <= Len(s) /\ s[close] = "]"
            THEN StripIndexes(SubSeq(s, close + 1, Len(s)))
            ELSE <<Head(s)>> \o StripIndexes(Tail(s))

\* the segments of a path term: prefix and indexes removed, one leading and
\* one trailing slash removed, split on '/', empty parts dropped
PathSegments(trimmedTerm) ==
  LET p1 == StripIndexes(StripPipPrefix(trimmedTerm))
      p2 == IF StartsWith(p1, <<"/">>) THEN Tail(p1) ELSE p1
      p3 == IF EndsWith(p2, <<"/">>) THEN SubSeq(p2, 1, Len(p2) - 1) ELSE p2
  IN SelectSeq(Split(p3, "/"), LAMBDA seg : seg # <<>>)

\* c.name.toLowerCase() === t.toLowerCase() || c.name.includes(t)
NameMatches(c, t) ==
  ToLowerCase(c.name) = ToLowerCase(t) \/ Includes(c.name, t)

\* children.find(c => NameMatches(c, t)), wrapped in a sequence
FindMatch(children, t) ==
  LET found == SelectSeq(children, LAMBDA c : NameMatches(c, t))
  IN IF found = <<>> THEN <<>> ELSE <<Head(found)>>

\* a variant of FindChoice that finds no Choice child; C9 does not hold of it
FindChoice_None(children) == <<>>

\* children.find(c => c.name === 'Choice' || c.name === '(Choice)'), wrapped
\* in a sequence
FindChoice(children) ==
  LET found == SelectSeq(children,
                         LAMBDA c : c.name = sChoice \/ c.name = sParenChoice)
  IN IF found = <<>> THEN <<>> ELSE <<Head(found)>>

\* the variables of the path loop before its first iteration; matchedNodeId
\* is <<>> for null and <<id>> for an id
PathStart ==
  [i |-> 0, currentParentId |-> 0, matchedNodeId |-> <<>>,
   newExpanded |-> {}, stopped |-> FALSE]

\* a variant of PathStep that tries the single match before the compound
\* match; C17 does not hold of it
PathStep_SingleFirst(items, segments, st) ==
  LET segment == segments[st.i + 1]
      hasNext == st.i + 2 <= Len(segments)
      children == Children(items, st.currentParentId)
      compound == IF hasNext
                    THEN FindMatch(children,
                                   segment \o <<".">> \o segments[st.i + 2])
                    ELSE <<>>
      single == FindMatch(children, segment)
  IN IF single # <<>>
       THEN [i |-> st.i + 1, currentParentId |-> single[1].id,
             matchedNodeId |-> <<single[1].id>>,
             newExpanded |-> st.newExpanded \cup {single[1].id},
             stopped |-> FALSE]
     ELSE IF compound # <<>>
       THEN [i |-> st.i + 2, currentParentId |-> compound[1].id,
             matchedNodeId |-> <<compound[1].id>>,
             newExpanded |-> st.newExpanded \cup {compound[1].id},
             stopped |-> FALSE]
     ELSE [st EXCEPT !.stopped = TRUE]

\* one iteration of the while loop over the segments (i counts from 0)
PathStep(items, segments, st) ==
  LET segment == segments[st.i + 1]
      hasNext == st.i + 2 <= Len(segments)
      children == Children(items, st.currentParentId)
      compound == IF hasNext
                    THEN FindMatch(children,
                                   segment \o <<".">> \o segments[st.i + 2])
                    ELSE <<>>
      single == FindMatch(children, segment)
      choiceNode == FindChoice(children)
      matchInChoice ==
        IF choiceNode = <<>> THEN <<>>
        ELSE FindMatch(Children(items, choiceNode[1].id), segment)
  IN IF compound # <<>>
       THEN [i |-> st.i + 2, currentParentId |-> compound[1].id,
             matchedNodeId |-> <<compound[1].id>>,
             newExpanded |-> st.newExpanded \cup {compound[1].id},
             stopped |-> FALSE]
     ELSE IF single # <<>>
       THEN [i |-> st.i + 1, currentParentId |-> single[1].id,
             matchedNodeId |-> <<single[1].id>>,
             newExpanded |-> st.newExpanded \cup {single[1].id},
             stopped |-> FALSE]
     ELSE IF matchInChoice # <<>>
       THEN [i |-> st.i + 1, currentParentId |-> matchInChoice[1].id,
             matchedNodeId |-> <<matchInChoice[1].id>>,
             newExpanded |-> st.newExpanded
                               \cup {choiceNode[1].id, matchInChoice[1].id},
             stopped |-> FALSE]
     ELSE [st EXCEPT !.stopped = TRUE]

\* the states of the path loop, from st to the state it ends in
RECURSIVE PathStates(_, _, _)
PathStates(items, segments, st) ==
  IF st.i >= Len(segments) \/ st.stopped THEN <<st>>
  ELSE <<st>> \o PathStates(items, segments, PathStep(items, segments, st))

\* the state the path loop ends in
PathResult(items, segments) ==
  LET states == PathStates(items, segments, PathStart)
  IN states[Len(states)]

\* if (matchedNodeId): an id other than 0
Truthy(matchedNodeId) == matchedNodeId # <<>> /\ matchedNodeId[1] # 0

\* the matches of the keyword search
KeywordMatches(items, trimmedTerm) ==
  LET lowerTerm == ToLowerCase(trimmedTerm)
  IN SelectSeq(items, LAMBDA item :
       \/ Includes(ToLowerCase(item.name), lowerTerm)
       \/ Includes(item.fieldNo, lowerTerm))

\* the while loop of the keyword search for one match: the ids it adds
RECURSIVE AncestorWalk(_, _, _)
AncestorWalk(items, currentParentId, added) ==
  IF currentParentId = 0 THEN added
  ELSE LET parent == FindById(items, currentParentId)
       IN IF parent # <<>>
            THEN AncestorWalk(items, parent[1].parentId,
                              added \cup {currentParentId})
            ELSE added \cup {currentParentId}

\* matches.forEach(...): every id the keyword search adds to newExpanded
KeywordExpansion(items, matches) ==
  UNION {AncestorWalk(items, matches[i].parentId, {}) : i \in DOMAIN matches}

\* ---------------------------------------------------------------- inputs

\* the longest table an uploaded document of GeneratedDocs has
MaxRows == 3

\* rows (cell 0: field number, cell 1: cardinality, cell 2: name) the
\* uploaded documents are made of: three levels, a compound name and a
\* Choice node (a row used twice repeats its id)
RowPool ==
  { <<<<"1">>, <<"1">>, <<"A", "b">>>>,
    <<<<"2">>, <<"0", ".", ".", "n">>, <<"|", "-", "-", "A", "b", ".", "C", "d">>>>,
    <<<<"3">>, <<"1">>, <<"|", "-", "-", "C", "h", "o", "i", "c", "e">>>>,
    <<<<"4">>, <<"1">>, <<"|", "-", "-", "|", "-", "-", "C", "d">>>> }

\* the uploaded documents: one table of at most MaxRows rows of RowPool
GeneratedDocs ==
  UNION {{<<rows>> : rows \in [1..n -> RowPool]} : n \in 1..MaxRows}

\* the catalog of the three rows Pip3A4.Root, ServiceHeader, ProcessControl
DocPip3A4 ==
  <<<<<<<<"1">>,
       <<"1">>,
       <<"P", "i", "p", "3", "A", "4", ".", "R", "o", "o", "t">>>>,
    <<<<"2">>,
       <<"1">>,
       <<"|", "-", "-", "S", "e", "r", "v", "i", "c", "e", "H", "e", "a", "d", "e", "r">>>>,
    <<<<"3">>,
       <<"1">>,
       <<"|", "-", "-", "|", "-", "-", "P", "r", "o", "c", "e", "s", "s", "C", "o", "n", "t", "r", "o", "l">>>>>>>>

\* a definition table, and a catalog of more than five rows in which a
\* Choice node wraps ProcessControl and one name is a compound
DocChoice ==
  <<<<<<<<"N", "a", "m", "e">>,
        <<"D", "e", "f", "i", "n", "i", "t", "i", "o", "n">>>>,
     <<<<"S", "e", "r", "v", "i", "c", "e", "H", "e", "a", "d", "e", "r">>,
        <<"U", "n", "f", "o", "r", "m", "a", "t", "t", "e", "d", " ", "T", "e", "x", "t", ".">>>>,
     <<<<"P", "r", "o", "c", "e", "s", "s", "C", "o", "n", "t", "r", "o", "l">>,
        <<"C", "o", "n", "t", "r", "o", "l", "s", " ", "t", "h", "e", " ", "p", "r", "o", "c", "e", "s", "s", ".">>>>>>,
    <<<<<<"N", "o">>,
        <<"C", "a", "r", "d">>,
        <<"N", "a", "m", "e">>>>,
     <<<<"1">>,
        <<"1">>,
        <<"S", "e", "r", "v", "i", "c", "e", "H", "e", "a", "d", "e", "r">>>>,
     <<<<"2">>,
        <<"1">>,
        <<"|", "-", "-", "C", "h", "o", "i", "c", "e">>>>,
     <<<<"3">>,
        <<"0", ".", ".", "1">>,
        <<"|", "-", "-", "|", "-", "-", "P", "r", "o", "c", "e", "s", "s", "C", "o", "n", "t", "r", "o", "l">>>>,
     <<<<"4">>,
        <<"0", ".", ".", "1">>,
        <<"|", "-", "-", "|", "-", "-", "T", "r", "a", "n", "s", "a", "c", "t", "i", "o", "n", "C", "o", "n", "t", "r", "o", "l">>>>,
     <<<<"5">>,
        <<"1">>,
        <<"|", "-", "-", "f", "r", "o", "m", "R", "o", "l", "e", ".", "P", "a", "r", "t", "n", "e", "r", "R", "o", "l", "e", "D", "e", "s", "c", "r", "i", "p", "t", "i", "o", "n">>>>,
     <<<<"6">>,
        <<"1">>,
        <<"|", "-", "-", "|", "-", "-", "C", "o", "n", "t", "a", "c", "t", "I", "n", "f", "o", "r", "m", "a", "t", "i", "o", "n">>>>>>>>

\* a catalog in which ServiceHeader has two Choice children, the second of
\* which holds ProcessControl, and one field number has a letter
DocTwoChoice ==
  <<<<<<<<"1">>,
       <<"1">>,
       <<"S", "e", "r", "v", "i", "c", "e", "H", "e", "a", "d", "e", "r">>>>,
    <<<<"2">>,
       <<"1">>,
       <<"|", "-", "-", "(", "C", "h", "o", "i", "c", "e", ")">>>>,
    <<<<"3", "A">>,
       <<"1">>,
       <<"|", "-", "-", "|", "-", "-", "G", "l", "o", "b", "a", "l", "C", "o", "d", "e">>>>,
    <<<<"4">>,
       <<"1">>,
       <<"|", "-", "-", "C", "h", "o", "i", "c", "e">>>>,
    <<<<"5">>,
       <<"1">>,
       <<"|", "-", "-", "|", "-", "-", "P", "r", "o", "c", "e", "s", "s", "C", "o", "n", "t", "r", "o", "l">>>>>>>>

\* a catalog whose field numbers 11 and 1.1 both clean to the id 11
DocDuplicateId ==
  <<<<<<<<"1", "1">>,
       <<"1">>,
       <<"A", "b">>>>,
    <<<<"1", ".", "1">>,
       <<"1">>,
       <<"|", "-", "-", "C", "d">>>>>>>>

\* a definition table with placeholder definitions, and a catalog with a
\* header row, a row of two cells, the siblings Ab and Ab.Cd, a row whose
\* name is in its fourth cell and a name of three parts
DocMixed ==
  <<<<<<<<"N", "a", "m", "e">>,
        <<"D", "e", "f", "i", "n", "i", "t", "i", "o", "n">>>>,
     <<<<"A", "b", ".", "C", "d">>,
        <<"U", "n", "f", "o", "r", "m", "a", "t", "t", "e", "d", " ", "T", "e", "x", "t", ".">>>>,
     <<<<"A", "b">>,
        <<"F", "i", "r", "s", "t", ".">>>>,
     <<<<"C", "d">>,
        <<"S", "e", "c", "o", "n", "d", ".">>>>,
     <<<<"E", "f">>,
        <<"U", "N", "F", "O", "R", "M", "A", "T", "T", "E", "D", " ", "T", "E", "X", "T">>>>>>,
    <<<<<<"N", "o">>,
        <<"C", "a", "r", "d">>,
        <<"N", "a", "m", "e">>>>,
     <<<<"9">>,
        <<"1">>>>,
     <<<<"1">>,
        <<"1">>,
        <<"A", "b">>>>,
     <<<<"2">>,
        <<"1">>,
        <<"A", "b", ".", "C", "d">>>>,
     <<<<"3">>,
        <<"1">>,
        <<"|", "-", "-", "C", "d">>>>,
     <<<<"4">>,
        <<"1">>,
        <<"|", "-", "-">>,
        <<"|", "-", "-", "|", "-", "-", "E", "f">>>>,
     <<<<"5">>,
        <<"1">>,
        <<"|", "-", "-", "|", "-", "-", "G", "h", ".", "C", "d", ".", "E", "f">>>>>>>>

\* a catalog of one row whose field number is 0
DocZeroId ==
  <<<<<<<<"0">>,
       <<"1">>,
       <<"C", "d">>>>>>>>

\* a catalog of two root rows: the first name contains the second
DocSubstringFirst ==
  <<<<<<<<"1">>,
       <<"1">>,
       <<"A", "b", ".", "C", "d">>>>,
    <<<<"2">>,
       <<"1">>,
       <<"C", "d">>>>>>>>

\* a table with a header row only: the parser returns no row
DocHeaderOnly ==
  <<<<<<<<"N", "o">>,
       <<"C", "a", "r", "d">>,
       <<"N", "a", "m", "e">>>>>>>>

\* a text without any table: the parser throws
DocNoTable == <<>>

\* the files of the cloud store: name, whether the content is the empty
\* text, and the tables of the content
CloudFiles ==
  { [name |-> <<"3", "A", "4", ".", "h", "t", "m">>, blank |-> FALSE, tables |-> DocPip3A4],
    [name |-> <<"c", "h", "o", "i", "c", "e", ".", "h", "t", "m">>, blank |-> FALSE, tables |-> DocChoice],
    [name |-> <<"t", "w", "o", ".", "h", "t", "m">>, blank |-> FALSE, tables |-> DocTwoChoice],
    [name |-> <<"d", "u", "p", ".", "h", "t", "m">>, blank |-> FALSE, tables |-> DocDuplicateId],
    [name |-> <<"m", "i", "x", "e", "d", ".", "h", "t", "m">>, blank |-> FALSE, tables |-> DocMixed],
    [name |-> <<"z", "e", "r", "o", ".", "h", "t", "m">>, blank |-> FALSE, tables |-> DocZeroId],
    [name |-> <<"s", "u", "b", ".", "h", "t", "m">>, blank |-> FALSE, tables |-> DocSubstringFirst],
    [name |-> <<"h", "e", "a", "d", ".", "h", "t", "m">>, blank |-> FALSE, tables |-> DocHeaderOnly],
    [name |-> <<"n", "o", "n", "e", ".", "h", "t", "m">>, blank |-> FALSE, tables |-> DocNoTable],
    [name |-> <<"b", "l", "a", "n", "k", ".", "h", "t", "m">>, blank |-> TRUE, tables |-> DocNoTable] }

\* the files the user can upload
UploadFiles ==
  {[name |-> <<"u", "p", ".", "H", "T", "M", "L">>, blank |-> FALSE, tables |-> d] :
     d \in GeneratedDocs \cup {DocHeaderOnly, DocNoTable}}
    \cup {[name |-> <<"u", "p", ".", "p", "d", "f">>, blank |-> FALSE, tables |-> DocPip3A4]}

\* the path of the README
sPathQuery ==
  <<"/", "P", "i", "p", "3", "A", "4", "/", "S", "e", "r", "v", "i", "c", "e", "H", "e", "a", "d", "e", "r", "/", "P", "r", "o", "c", "e", "s", "s", "C", "o", "n", "t", "r", "o", "l">>

\* the same path with the root row's name as its first segment
sRootedQuery ==
  <<"/", "P", "i", "p", "3", "A", "4", "/", "P", "i", "p", "3", "A", "4", ".", "R", "o", "o", "t", "/", "S", "e", "r", "v", "i", "c", "e", "H", "e", "a", "d", "e", "r", "/", "P", "r", "o", "c", "e", "s", "s", "C", "o", "n", "t", "r", "o", "l">>

\* a path whose second segment matches nothing
sPartialQuery ==
  <<"S", "e", "r", "v", "i", "c", "e", "H", "e", "a", "d", "e", "r", "[", "0", "]", "/", "M", "i", "s", "s", "i", "n", "g", "/">>

\* a path over the names of RowPool
sGenQuery ==
  <<"/", "A", "b", "/", "C", "d">>

\* a one-segment path over the names of RowPool
sGenChoiceQuery ==
  <<"/", "C", "d", "[", "1", "2", "]">>

\* a keyword, with white space around it
sKeyword ==
  <<" ", "c", "o", "n", "t", "r", "o", "l", " ">>

\* a keyword over the names of RowPool, in upper case
sGenKeyword ==
  <<"C", "D">>

\* a keyword that is a field number of DocTwoChoice
sFieldKeyword ==
  <<"3", "A">>

\* white space only
sBlank ==
  <<" ", " ">>

\* parseRosettaNetHtml of every file's content, computed once
Parsed ==
  [file \in UploadFiles \cup CloudFiles |-> parseRosettaNetHtml(file.tables)]

\* the texts the user types into the search box
SearchTerms ==
  { <<>>, sPathQuery, sRootedQuery, sPartialQuery, sGenQuery, sGenChoiceQuery, sKeyword, sGenKeyword, sFieldKeyword, sBlank }

\* ----------------------------------------------------------------- state

VARIABLES
  data,            \* useState([]): the node list
  fileName,        \* useState("")
  expandedIds,     \* useState(new Set())
  searchTerm,      \* useState('')
  highlightedIds,  \* useState(new Set())
  searchMode,      \* useState('keyword')
  error,           \* FileUpload's useState(null): "none" for null, else
                   \* the message shown ("extension", "structure" for the
                   \* parser's exception, "norows")
  rendered,        \* the render of this state has returned: useMemo's
                   \* visibleItems did.  While it does not return the page
                   \* takes no event and runs no effect.
  selectedFile,    \* useState(""): the value of the cloud selector
  isFileLoading,   \* useState(false)
  pending,         \* the calls of handleGasFileSelect that are suspended at
                   \* an await: a bag of cloud files
  database,        \* the node 'files' of the Firebase database: a set of
                   \* [key, content], one record for a key
  fileList,        \* useState([]): the names getFiles returned (their
                   \* order and time stamps are not followed)
  saved,           \* history: the file names given to saveFile, in order
  last             \* history: the last handler (event), the branch the
                   \* search effect took after it (ran: "none" when it did
                   \* not run), the expandedIds the handler left, which
                   \* the effect started from (expandedBefore), and the
                   \* tables of the text the handler gave to the parser
                   \* (content, <<>> when it parsed nothing)

\* the viewer's state, the cloud selector's state and the file store
viewVars ==
  <<data, fileName, expandedIds, searchTerm, highlightedIds, searchMode,
    error, rendered, last>>

fetchVars == <<selectedFile, isFileLoading, pending>>

storeVars == <<database, fileList, saved>>

vars == <<viewVars, fetchVars, storeVars>>

\* the main view is shown (data.length > 0), the upload view otherwise
MainView == Len(data) > 0

Init ==
  /\ data = <<>>
  /\ fileName = <<>>
  /\ expandedIds = {}
  /\ searchTerm = <<>>
  /\ highlightedIds = {}
  /\ searchMode = "keyword"
  /\ error = "none"
  /\ rendered = TRUE
  /\ selectedFile = <<>>
  /\ isFileLoading = FALSE
  /\ pending = EmptyBag
  /\ database = {}
  /\ fileList = {}
  /\ saved = <<>>
  /\ last = [event |-> "mount", ran |-> "nodata", expandedBefore |-> {},
             content |-> <<>>]

\* ----------------------------------------------------------- search effect

\* a variant of EffectPath that stores the accumulated ids whether or not a
\* node matched; C6 does not hold of it
EffectPath_AlwaysReplaces(items, trimmedTerm, expanded) ==
  LET result == PathResult(items, PathSegments(trimmedTerm))
  IN [expandedIds |-> result.newExpanded,
      highlightedIds |-> IF Truthy(result.matchedNodeId)
                           THEN {result.matchedNodeId[1]}
                           ELSE {},
      searchMode |-> "path", ran |-> "path"]

\* the path branch of the effect
EffectPath(items, trimmedTerm, expanded) ==
  LET result == PathResult(items, PathSegments(trimmedTerm))
  IN IF Truthy(result.matchedNodeId)
       THEN [expandedIds |-> result.newExpanded,
             highlightedIds |-> {result.matchedNodeId[1]},
             searchMode |-> "path", ran |-> "path"]
       ELSE [expandedIds |-> expanded, highlightedIds |-> {},
             searchMode |-> "path", ran |-> "path"]

\* a variant of EffectKeyword that stores the ancestors alone; C7 does not
\* hold of it
EffectKeyword_Replaces(items, trimmedTerm, expanded) ==
  LET matches == KeywordMatches(items, trimmedTerm)
  IN [expandedIds |-> KeywordExpansion(items, matches),
      highlightedIds |-> {matches[i].id : i \in DOMAIN matches},
      searchMode |-> "keyword", ran |-> "keyword"]

\* a variant of EffectKeyword that collapses the ancestors that were
\* expanded already; C14 does not hold of it
EffectKeyword_Toggles(items, trimmedTerm, expanded) ==
  LET matches == KeywordMatches(items, trimmedTerm)
      ancestors == KeywordExpansion(items, matches)
  IN [expandedIds |-> (expanded \ ancestors) \cup (ancestors \ expanded),
      highlightedIds |-> {matches[i].id : i \in DOMAIN matches},
      searchMode |-> "keyword", ran |-> "keyword"]

\* the keyword branch of the effect
EffectKeyword(items, trimmedTerm, expanded) ==
  LET matches == KeywordMatches(items, trimmedTerm)
  IN [expandedIds |-> expanded \cup KeywordExpansion(items, matches),
      highlightedIds |-> {matches[i].id : i \in DOMAIN matches},
      searchMode |-> "keyword", ran |-> "keyword"]

\* the body of useEffect(..., [searchTerm, data]), run with the state of the
\* render it follows: what it leaves in expandedIds, highlightedIds and
\* searchMode, and the branch it took
SearchEffect(items, term, expanded, highlighted, mode) ==
  IF Len(items) = 0
    THEN [expandedIds |-> expanded, highlightedIds |-> highlighted,
          searchMode |-> mode, ran |-> "nodata"]
  ELSE IF Trim(term) = <<>>
    THEN [expandedIds |-> expanded, highlightedIds |-> {},
          searchMode |-> "keyword", ran |-> "blank"]
  ELSE IF IsPathTerm(Trim(term))
    THEN EffectPath(items, Trim(term), expanded)
  ELSE EffectKeyword(items, Trim(term), expanded)

\* One event: the handler's state updates (items, name, expanded, term,
\* highlighted, mode), the render that follows, and the search effect when
\* the handler changed searchTerm or data (due) and that render returned.
\* React runs the effects of a render before it handles the next event.
\* FileUpload is mounted while the upload view is shown: its error lasts as
\* long as the node list stays empty.
Commit(event, content, items, name, expanded, term, highlighted, mode, due) ==
  \E out \in
       {IF due /\ visibleItems(items, expanded).returns
          THEN SearchEffect(items, term, expanded, highlighted, mode)
          ELSE [expandedIds |-> expanded, highlightedIds |-> highlighted,
                searchMode |-> mode, ran |-> "none"]} :
    /\ data' = items
    /\ fileName' = name
    /\ searchTerm' = term
    /\ expandedIds' = out.expandedIds
    /\ highlightedIds' = out.highlightedIds
    /\ searchMode' = out.searchMode
    /\ error' = IF Len(items) = 0 /\ Len(data) = 0 THEN error ELSE "none"
    /\ rendered' = visibleItems(items, out.expandedIds).returns
    /\ last' = [event |-> event, ran |-> out.ran, expandedBefore |-> expanded,
                content |-> content]
    /\ UNCHANGED storeVars

\* --------------------------------------------------------------- handlers

\* a variant of handleDataLoaded without setExpandedIds(new Set()); C10 does
\* not hold of it
handleDataLoaded_KeepsExpansion(parsedData, name, rawContent, event) ==
  Commit(event, rawContent,
         IF parsedData = <<>> THEN <<>>
         ELSE [i \in DOMAIN parsedData |-> FormatItem(parsedData[i])],
         name, expandedIds, searchTerm, highlightedIds, searchMode, TRUE)

\* handleDataLoaded(parsedData, name, rawContent): setData of a new array,
\* setFileName, setExpandedIds(new Set())
handleDataLoaded(parsedData, name, rawContent, event) ==
  Commit(event, rawContent,
         IF parsedData = <<>> THEN <<>>
         ELSE [i \in DOMAIN parsedData |-> FormatItem(parsedData[i])],
         name, {}, searchTerm, highlightedIds, searchMode, TRUE)

\* processFile's test of the file name
HasHtmlExtension(name) ==
  LET lower == ToLowerCase(name)
  IN \/ EndsWith(lower, <<".", "h", "t", "m">>)
     \/ EndsWith(lower, <<".", "h", "t", "m", "l">>)
     \/ EndsWith(lower, <<".", "t", "x", "t">>)

\* setError(message) in processFile and reader.onload: the App's state is
\* left alone
UploadError(message, content) ==
  /\ error' = message
  /\ last' = [event |-> "uploadError", ran |-> "none",
              expandedBefore |-> expandedIds, content |-> content]
  /\ UNCHANGED <<data, fileName, expandedIds, searchTerm, highlightedIds,
                 searchMode, rendered>>
  /\ UNCHANGED storeVars

\* FileUpload: processFile and reader.onload.  A file of another extension,
\* a parser that throws and a parse of no rows set FileUpload's error.
FileUploaded(file) ==
  /\ ~MainView
  /\ rendered
  /\ UNCHANGED fetchVars
  /\ IF ~HasHtmlExtension(file.name)
       THEN UploadError("extension", <<>>)
     ELSE IF Parsed[file].threw
       THEN UploadError("structure", file.tables)
     ELSE IF Len(Parsed[file].rawData) = 0
       THEN UploadError("norows", file.tables)
     ELSE handleDataLoaded(Parsed[file].rawData, file.name, file.tables,
                           "upload")

\* the fetches that may be in flight at once
MaxPending == 2

\* handleGasFileSelect up to its first await, from the onChange of the cloud
\* selector (shown in both views), which fires when its value changes:
\* setSelectedFile, setIsFileLoading(true).  The node list is left alone, so
\* no effect runs.
handleGasFileSelect(file) ==
  /\ rendered
  /\ file.name # selectedFile
  /\ BagCardinality(pending) < MaxPending
  /\ selectedFile' = file.name
  /\ isFileLoading' = TRUE
  /\ pending' = pending (+) SetToBag({file})
  /\ last' = [event |-> "select", ran |-> "none",
              expandedBefore |-> expandedIds, content |-> <<>>]
  /\ UNCHANGED <<data, fileName, expandedIds, searchTerm, highlightedIds,
                 searchMode, error, rendered>>
  /\ UNCHANGED storeVars

\* handleGasFileSelect after its awaits, for the file name of its own call:
\* getFile's content is parsed and loaded, and finally
\* setIsFileLoading(false).  An empty content is skipped, a parser that
\* throws is alerted: both leave the viewer as it is.
GasFileLoaded(file) ==
  /\ rendered
  /\ isFileLoading' = FALSE
  /\ UNCHANGED selectedFile
  /\ IF file.blank \/ Parsed[file].threw
       THEN UNCHANGED viewVars /\ UNCHANGED storeVars
     ELSE handleDataLoaded(Parsed[file].rawData, file.name, file.tables,
                           "cloud")

\* a fetch completes while the fetches in flight are not followed: any cloud
\* file's may
GasFileLoadedAnyTime(file) ==
  /\ GasFileLoaded(file)
  /\ UNCHANGED pending

\* one of the fetches in flight completes
GasFileFetched(file) ==
  /\ BagIn(file, pending)
  /\ pending' = pending (-) SetToBag({file})
  /\ GasFileLoaded(file)

\* toggleNode(id), from the chevron of a displayed row that has children
toggleNode(id) ==
  /\ MainView
  /\ rendered
  /\ UNCHANGED fetchVars
  /\ HasChildren(data, id)
  /\ \E shown \in {visibleItems(data, expandedIds).items} :
       \E i \in DOMAIN shown : shown[i].id = id
  /\ Commit("toggle", <<>>, data, fileName,
            IF id \in expandedIds
              THEN expandedIds \ {id}
              ELSE expandedIds \cup {id},
            searchTerm, highlightedIds, searchMode, FALSE)

expandAll ==
  /\ MainView
  /\ rendered
  /\ UNCHANGED fetchVars
  /\ Commit("expandAll", <<>>, data, fileName, AllParentIds(data),
            searchTerm, highlightedIds, searchMode, FALSE)

collapseAll ==
  /\ MainView
  /\ rendered
  /\ UNCHANGED fetchVars
  /\ Commit("collapseAll", <<>>, data, fileName, {},
            searchTerm, highlightedIds, searchMode, FALSE)

\* a variant of clearView without collapseAll(); C11 does not hold of it
clearView_KeepsExpansion ==
  /\ MainView
  /\ rendered
  /\ UNCHANGED fetchVars
  /\ Commit("clearView", <<>>, data, fileName, expandedIds, <<>>, {}, "keyword",
            searchTerm # <<>>)

\* clearView; the effect runs again when searchTerm changes
clearView ==
  /\ MainView
  /\ rendered
  /\ UNCHANGED fetchVars
  /\ Commit("clearView", <<>>, data, fileName, {}, <<>>, {}, "keyword",
            searchTerm # <<>>)

\* resetFile: setData([]) is a new array, so the effect runs again
resetFile ==
  /\ MainView
  /\ rendered
  /\ UNCHANGED fetchVars
  /\ Commit("resetFile", <<>>, <<>>, <<>>, {}, <<>>, {}, "keyword", TRUE)

\* the search box's onChange (and its clear button): setSearchTerm(term)
setSearchTerm(term) ==
  /\ MainView
  /\ rendered
  /\ UNCHANGED fetchVars
  /\ term # searchTerm
  /\ Commit("search", <<>>, data, fileName, expandedIds, term, highlightedIds,
            searchMode, TRUE)

Next ==
  \/ \E file \in UploadFiles : FileUploaded(file)
  \/ \E file \in CloudFiles : GasFileLoadedAnyTime(file)
  \/ \E id \in {data[i].id : i \in DOMAIN data} : toggleNode(id)
  \/ expandAll
  \/ collapseAll
  \/ clearView
  \/ resetFile
  \/ \E term \in SearchTerms : setSearchTerm(term)

\* the viewer: every event runs to completion, and a cloud file is loaded
\* whenever its fetch completes (the selector's state is left to SpecFetch)
Spec == Init /\ [][Next]_vars

\* the cloud selector: files are selected while earlier fetches are in
\* flight, and the fetches complete in any order
NextFetch ==
  \/ \E file \in CloudFiles : handleGasFileSelect(file)
  \/ \E file \in CloudFiles : GasFileFetched(file)
  \/ resetFile

SpecFetch == Init /\ [][NextFetch]_vars

\* ------------------------------------------------------------ file store

sDOT == <<"_", "D", "O", "T", "_">>

sHASH == <<"_", "H", "A", "S", "H", "_">>

sDOLLAR == <<"_", "D", "O", "L", "L", "A", "R", "_">>

sLBRACKET == <<"_", "L", "B", "R", "A", "C", "K", "E", "T", "_">>

sRBRACKET == <<"_", "R", "B", "R", "A", "C", "K", "E", "T", "_">>

\* encodeFilename: five replacements, one after the other
encodeFilename(filename) ==
  ReplaceChar(
    ReplaceChar(
      ReplaceChar(
        ReplaceChar(
          ReplaceChar(filename, ".", sDOT),
          "#", sHASH),
        "$", sDOLLAR),
      "[", sLBRACKET),
    "]", sRBRACKET)

\* decodeFilename: five replacements, one after the other
decodeFilename(encoded) ==
  ReplaceAll(
    ReplaceAll(
      ReplaceAll(
        ReplaceAll(
          ReplaceAll(encoded, sDOT, <<".">>),
          sHASH, <<"#">>),
        sDOLLAR, <<"$">>),
      sLBRACKET, <<"[">>),
    sRBRACKET, <<"]">>)

\* getFiles: the decoded keys of the node 'files'
getFiles(files) == {decodeFilename(record.key) : record \in files}

\* the parts a file name is made of, and the most parts it has
NameParts ==
  { <<"a">>, <<".">>, <<"#">>, <<"_", "D", "O", "T", "_">>,
    <<"D", "O", "T", "_">> }

MaxNameParts == 2

\* the names the user gives to a file that is saved
FileNames ==
  UNION {{Concat(parts) : parts \in [1..n -> NameParts]} : n \in 1..MaxNameParts}

\* the contents that are saved
SavedContents == {DocPip3A4, DocChoice}

\* the calls of saveFile in a behaviour
MaxSaves == 2

\* saveFile(filename, content): set() writes the record at files/<key>,
\* over the record that is there
saveFile(filename, content) ==
  /\ Len(saved) < MaxSaves
  /\ \E encodedName \in {encodeFilename(filename)} :
       database' = {record \in database : record.key # encodedName}
                     \cup {[key |-> encodedName, content |-> content]}
  /\ saved' = Append(saved, filename)
  /\ UNCHANGED fileList
  /\ UNCHANGED viewVars
  /\ UNCHANGED fetchVars

\* fetchFileList, on mount, from the reload button and after a save:
\* setFileList(await getFiles())
fetchFileList ==
  /\ fileList' = getFiles(database)
  /\ UNCHANGED <<database, saved>>
  /\ UNCHANGED viewVars
  /\ UNCHANGED fetchVars

NextStore ==
  \/ \E filename \in FileNames, content \in SavedContents :
       saveFile(filename, content)
  \/ fetchFileList

\* the file store: files are saved under names the user gives and listed
SpecStore == Init /\ [][NextStore]_vars

\* ------------------------------------------------------------ properties

sPip3A4Root ==
  <<"P", "i", "p", "3", "A", "4", ".", "R", "o", "o", "t">>

sServiceHeader ==
  <<"S", "e", "r", "v", "i", "c", "e", "H", "e", "a", "d", "e", "r">>

sProcessControl ==
  <<"P", "r", "o", "c", "e", "s", "s", "C", "o", "n", "t", "r", "o", "l">>

\* the trimmed search text, its path segments and the path loop's states
Query == Trim(searchTerm)

Segments == PathSegments(Query)

Resolution == PathResult(data, Segments)

\* the search effect has just run in path mode / in keyword mode
PathSearchRan == last.ran = "path"

KeywordSearchRan == last.ran = "keyword"

\* the node list is that of DocPip3A4: node 1 Pip3A4.Root (level 0), node 2
\* ServiceHeader (level 1, parent 1), node 3 ProcessControl (level 2, parent 2)
IsPip3A4Document ==
  /\ Len(data) = 3
  /\ data[1].id = 1 /\ data[1].name = sPip3A4Root
  /\ data[1].level = 0 /\ data[1].parentId = 0
  /\ data[2].id = 2 /\ data[2].name = sServiceHeader
  /\ data[2].level = 1 /\ data[2].parentId = 1
  /\ data[3].id = 3 /\ data[3].name = sProcessControl
  /\ data[3].level = 2 /\ data[3].parentId = 2

\* C1 as stated: on the Pip3A4 document the search
\* '/Pip3A4/ServiceHeader/ProcessControl' ends with node 3 as the only
\* highlighted node and with nodes 1 and 2 expanded.
C1_PathQueryFindsProcessControl ==
  (IsPip3A4Document /\ PathSearchRan /\ searchTerm = sPathQuery)
    => (highlightedIds = {3} /\ {1, 2} \subseteq expandedIds)

\* C1 as amended: on the Pip3A4 document the search
\* '/Pip3A4/ServiceHeader/ProcessControl' resolves no segment (its prefix
\* '/Pip3A4/' is removed and the only root-level node, Pip3A4.Root, does not
\* match ServiceHeader): it ends with no highlighted node and the expanded-set
\* as it was.  The search '/Pip3A4/Pip3A4.Root/ServiceHeader/ProcessControl'
\* ends with node 3 as the only highlighted node and nodes 1 and 2 expanded.
C1_RootedPathQueryFindsProcessControl ==
  (IsPip3A4Document /\ PathSearchRan)
    => /\ searchTerm = sPathQuery
            => (highlightedIds = {} /\ expandedIds = last.expandedBefore)
       /\ searchTerm = sRootedQuery
            => (highlightedIds = {3} /\ {1, 2} \subseteq expandedIds)

C1_Witness ==
  /\ IsPip3A4Document /\ PathSearchRan
  /\ searchTerm = sRootedQuery
  /\ highlightedIds = {3}
  /\ expandedIds = {1, 2, 3}

\* the positions before k of the nodes of a level
EarlierAtLevel(k, level) == {j \in 1..(k - 1) : data[j].level = level}

Latest(positions) == CHOOSE j \in positions : \A i \in positions : i <= j

\* C2: every node's parentId is the id of the latest earlier node one level
\* up, or 0 when there is none; a parentId other than 0 is the id of an
\* earlier node.
C2_ParentIsLatestShallower ==
  \A k \in DOMAIN data :
    LET up == EarlierAtLevel(k, data[k].level - 1)
    IN /\ data[k].parentId = IF up = {} THEN 0 ELSE data[Latest(up)].id
       /\ data[k].parentId # 0
            => \E j \in 1..(k - 1) : data[j].id = data[k].parentId

\* two earlier nodes one level up with different ids: the later is the parent
C2_Witness ==
  \E k \in DOMAIN data :
    \E i, j \in EarlierAtLevel(k, data[k].level - 1) :
      /\ i < j
      /\ data[i].id # data[j].id
      /\ data[k].parentId = data[j].id

\* the ids all of whose index entries up to the root are expanded: the least
\* set that holds an expanded id of the index whose node's parentId is 0 or
\* in the set
RECURSIVE OpenFrom(_)
OpenFrom(open) ==
  LET more ==
        {id \in expandedIds :
           /\ IdMapGet(data, id) # <<>>
           /\ \/ IdMapGet(data, id)[1].parentId = 0
              \/ IdMapGet(data, id)[1].parentId \in open}
  IN IF more \subseteq open THEN open ELSE OpenFrom(open \cup more)

OpenIds == OpenFrom({})

\* C3: the projection returns, in order, the nodes with parentId 0 or with
\* every ancestor expanded (and in the index); with nothing expanded, the
\* nodes with parentId 0.
C3_VisibleIffAncestorsExpanded ==
  LET shown == visibleItems(data, expandedIds)
  IN /\ shown.returns
     /\ shown.items =
          SelectSeq(data, LAMBDA d : d.parentId = 0 \/ d.parentId \in OpenIds)
     /\ expandedIds = {}
          => shown.items = SelectSeq(data, LAMBDA d : d.parentId = 0)

NodeIds == {data[i].id : i \in DOMAIN data}

\* C4: after expandAll the expanded-set is the set of the ids that are some
\* node's parentId, and the projection is the whole node list.
C4_ExpandAllShowsEverything ==
  last.event = "expandAll"
    => /\ expandedIds =
            NodeIds \cap {data[i].parentId : i \in DOMAIN data}
       /\ visibleItems(data, expandedIds) = [returns |-> TRUE, items |-> data]

\* C5: a path search that resolved a segment leaves the accumulated ids as
\* the expanded-set and the last resolved node as the only highlighted one;
\* one that resolved none leaves no highlighted node and the expanded-set as
\* it was.
C5_PathSearchReplacesExpansion ==
  PathSearchRan
    => IF Resolution.i > 0
         THEN /\ expandedIds = Resolution.newExpanded
              /\ highlightedIds = {Resolution.currentParentId}
         ELSE /\ highlightedIds = {}
              /\ expandedIds = last.expandedBefore

\* C6 as stated: a path search that stopped at a segment, the first or a
\* later one, leaves no highlighted node and the expanded-set as it was.
C6_FailedPathChangesNothing ==
  (PathSearchRan /\ Resolution.stopped)
    => (highlightedIds = {} /\ expandedIds = last.expandedBefore)

\* C6 as amended: a path search that stopped at its first segment (it
\* resolved none) leaves no highlighted node and the expanded-set as it was.
C6_FailedFirstSegmentChangesNothing ==
  (PathSearchRan /\ Resolution.stopped /\ Resolution.i = 0)
    => (highlightedIds = {} /\ expandedIds = last.expandedBefore)

C6_Witness ==
  /\ PathSearchRan /\ Resolution.stopped /\ Resolution.i = 0
  /\ last.expandedBefore # {}
  /\ expandedIds = last.expandedBefore

\* the ancestors of a set of ids: the least set that holds them and, for
\* each of its ids, the parentId (other than 0) of the first node of that id
RECURSIVE AncestorClosure(_)
AncestorClosure(ids) ==
  LET up == {FindById(data, id)[1].parentId :
               id \in {a \in ids : FindById(data, a) # <<>>}} \ {0}
  IN IF up \subseteq ids THEN ids ELSE AncestorClosure(ids \cup up)

AncestorsOfMatches ==
  LET matches == KeywordMatches(data, Query)
  IN AncestorClosure({matches[i].parentId : i \in DOMAIN matches} \ {0})

\* C7: a keyword search leaves the expanded-set it started from united with
\* every ancestor id of every match: nothing is removed, and without a match
\* nothing changes.
C7_KeywordSearchExtendsExpansion ==
  KeywordSearchRan
    => /\ expandedIds = last.expandedBefore \cup AncestorsOfMatches
       /\ last.expandedBefore \subseteq expandedIds
       /\ KeywordMatches(data, Query) = <<>>
            => expandedIds = last.expandedBefore

\* a keyword search that kept an id no match needs and added one
C7_Witness ==
  /\ KeywordSearchRan
  /\ last.expandedBefore \ AncestorsOfMatches # {}
  /\ expandedIds \ last.expandedBefore # {}

\* C8: after a keyword search the highlighted-set is the set of the ids of
\* the nodes whose name holds the query ignoring case or whose fieldNo holds
\* the query as typed.
C8_KeywordHighlightsNameOrFieldNo ==
  KeywordSearchRan
    => highlightedIds =
         {data[i].id :
            i \in {j \in DOMAIN data :
                     \/ Includes(ToLowerCase(data[j].name), ToLowerCase(Query))
                     \/ Includes(data[j].fieldNo, Query)}}

\* the states of the path loop of the search that has run, and the children
\* of a loop state's current node
LoopStates == PathStates(data, Segments, PathStart)

ChildrenAt(st) == {d \in {data[i] : i \in DOMAIN data} :
                     d.parentId = st.currentParentId}

ChildrenOf(node) == {d \in {data[i] : i \in DOMAIN data} :
                       d.parentId = node.id}

IsChoice(node) == node.name = sChoice \/ node.name = sParenChoice

\* neither the compound of segments i and i + 1 nor segment i matches a child
NoDirectMatch(st) ==
  /\ \A c \in ChildrenAt(st) : ~NameMatches(c, Segments[st.i + 1])
  /\ st.i + 2 <= Len(Segments)
       => \A c \in ChildrenAt(st) :
            ~NameMatches(c, Segments[st.i + 1] \o <<".">>
                              \o Segments[st.i + 2])

\* the loop's next state consumed one segment, went into a child of choice
\* that matches the segment and added both ids
DescendsThrough(choice, n) ==
  /\ LoopStates[n + 1].i = LoopStates[n].i + 1
  /\ \E g \in ChildrenOf(choice) :
       /\ NameMatches(g, Segments[LoopStates[n].i + 1])
       /\ LoopStates[n + 1].currentParentId = g.id
       /\ LoopStates[n + 1].newExpanded =
            LoopStates[n].newExpanded \cup {choice.id, g.id}

\* C9 as stated: where nothing matches directly but some child named Choice
\* or (Choice) has a child that matches the segment, the loop goes through
\* such a Choice child.
C9_AnyChoiceChildResolves ==
  PathSearchRan
    => \A n \in DOMAIN LoopStates :
         LET st == LoopStates[n]
             choices ==
               {c \in ChildrenAt(st) :
                  /\ IsChoice(c)
                  /\ \E g \in ChildrenOf(c) : NameMatches(g, Segments[st.i + 1])}
         IN (st.i < Len(Segments) /\ ~st.stopped /\ NoDirectMatch(st)
               /\ choices # {})
              => /\ n < Len(LoopStates)
                 /\ \E c \in choices : DescendsThrough(c, n)

\* the first child of a loop state's current node that is named Choice or
\* (Choice), wrapped in a sequence
FirstChoice(st) ==
  LET found == SelectSeq(data, LAMBDA d :
                 d.parentId = st.currentParentId /\ IsChoice(d))
  IN IF found = <<>> THEN <<>> ELSE <<Head(found)>>

\* C9 as amended: where nothing matches directly but the first child named
\* Choice or (Choice) has a child that matches the segment, the loop consumes
\* one segment, goes into such a grandchild and adds the Choice node's id and
\* the grandchild's id to the accumulated set.
C9_FirstChoiceChildResolves ==
  PathSearchRan
    => \A n \in DOMAIN LoopStates :
         LET st == LoopStates[n]
         IN (/\ st.i < Len(Segments) /\ ~st.stopped /\ NoDirectMatch(st)
             /\ FirstChoice(st) # <<>>
             /\ \E g \in ChildrenOf(FirstChoice(st)[1]) :
                  NameMatches(g, Segments[st.i + 1]))
              => /\ n < Len(LoopStates)
                 /\ DescendsThrough(FirstChoice(st)[1], n)

\* a search that went through a Choice node and ended on its child
C9_Witness ==
  /\ PathSearchRan
  /\ \E n \in DOMAIN LoopStates :
       /\ n < Len(LoopStates)
       /\ NoDirectMatch(LoopStates[n])
       /\ FirstChoice(LoopStates[n]) # <<>>
       /\ DescendsThrough(FirstChoice(LoopStates[n])[1], n)
       /\ highlightedIds = {LoopStates[n + 1].currentParentId}
       /\ FirstChoice(LoopStates[n])[1].id \in expandedIds

\* a parse has just been loaded, by upload or from the cloud
ParseLoaded == last.event \in {"upload", "cloud"}

\* C10 as stated: once a parse is loaded the expanded-set and the
\* highlighted-set are empty.
C10_LoadEmptiesBothSets ==
  ParseLoaded => (expandedIds = {} /\ highlightedIds = {})

\* C10 as amended: loading a parse empties the expanded-set before the search
\* effect runs; the state after that effect has both sets empty when the
\* search text is blank, and otherwise holds what the search of the kept
\* text finds in the new node list.
C10_LoadEmptiesBothSetsWhenSearchIsBlank ==
  ParseLoaded
    => /\ last.expandedBefore = {}
       /\ Query = <<>> => (expandedIds = {} /\ highlightedIds = {})
       /\ (Query # <<>> /\ last.ran # "none")
            => [expandedIds |-> expandedIds, highlightedIds |-> highlightedIds,
                searchMode |-> searchMode, ran |-> last.ran]
                 = SearchEffect(data, searchTerm, {}, highlightedIds,
                                searchMode)

\* a parse loaded over a blank search text that the user had typed
C10_Witness ==
  /\ ParseLoaded
  /\ searchTerm = sBlank
  /\ MainView
  /\ expandedIds = {} /\ highlightedIds = {}

\* C11: clearView, with the search effect that follows it, leaves the
\* expanded-set, the highlighted-set and the search text empty and the node
\* list as it was.
C11_ClearViewEmptiesView ==
  [][clearView => /\ expandedIds' = {}
                  /\ highlightedIds' = {}
                  /\ searchTerm' = <<>>
                  /\ data' = data]_vars

\* clearView has cleared a search text, and the effect has run on the blank
\* text
C11_Witness ==
  /\ last.event = "clearView"
  /\ last.ran = "blank"
  /\ MainView
  /\ expandedIds = {} /\ highlightedIds = {} /\ searchTerm = <<>>

\* a document has been given to the parser and its parse loaded
DocumentLoaded == last.event \in {"upload", "cloud"}

\* the parser has thrown on an uploaded document
ParseFailed == last.event = "uploadError" /\ error = "structure"

\* the main table of the document the last handler parsed
ParsedTable == last.content[MainTable(last.content)]

\* a cell 0 with a digit in it
HasDigit(cell) == \E i \in DOMAIN cell : IsDigit(cell[i])

\* the rows of a table that have three cells or more and a numeric id
EligibleRows(table) ==
  SelectSeq(table, LAMBDA tr : Len(tr) >= 3 /\ HasDigit(tr[1]))

\* C12: the parser throws exactly on the documents without a table; of a
\* document with a table it returns one node for each row of three cells or
\* more with a numeric id, in order, and nothing for the other rows.
C12_ParseFailsIffNoTable ==
  /\ ParseFailed => last.content = <<>>
  /\ (last.event = "uploadError" /\ error = "norows")
       => (last.content # <<>> /\ EligibleRows(ParsedTable) = <<>>)
  /\ DocumentLoaded
       => /\ last.content # <<>>
          /\ Len(data) = Len(EligibleRows(ParsedTable))
          /\ \A k \in DOMAIN data :
               data[k].fieldNo = Trim(EligibleRows(ParsedTable)[k][1])

\* a loaded document whose main table has a row of fewer than three cells
\* and a row without a numeric id, next to rows that became nodes
C12_Witness ==
  /\ DocumentLoaded
  /\ MainView
  /\ \E i \in DOMAIN ParsedTable : Len(ParsedTable[i]) < 3
  /\ \E i \in DOMAIN ParsedTable :
       Len(ParsedTable[i]) >= 3 /\ ~HasDigit(ParsedTable[i][1])

\* the dictionary of the document the last handler parsed
Dictionary == ParseDefinitions(last.content, <<>>)

\* the placeholder 'Unformatted Text.', in any letter case, with or without
\* its period
IsPlaceholder(def) ==
  ToLowerCase(def) \in
    { <<"u", "n", "f", "o", "r", "m", "a", "t", "t", "e", "d", " ",
        "t", "e", "x", "t">>,
      <<"u", "n", "f", "o", "r", "m", "a", "t", "t", "e", "d", " ",
        "t", "e", "x", "t", ".">> }

\* the names that a row of a definition table of the parsed document gives
\* the placeholder as definition
PlaceholderNames ==
  UNION {{Trim(table[r][1]) :
            r \in {r \in DOMAIN table :
                     /\ Len(table[r]) >= 2
                     /\ Trim(table[r][1]) # <<>>
                     /\ ToLowerCase(Trim(table[r][1])) # sName
                     /\ IsPlaceholder(Trim(table[r][2]))}} :
           table \in {last.content[t] :
                        t \in {t \in DOMAIN last.content :
                                 IsDefTable(last.content[t])}}}

\* C13: a name that a definition table gives the placeholder 'Unformatted
\* Text.' is mapped to the empty text by the dictionary, and every node of
\* that name has an empty description.
C13_PlaceholderGivesEmptyDescription ==
  DocumentLoaded
    => \A N \in PlaceholderNames :
         /\ N \in DOMAIN Dictionary /\ Dictionary[N] = <<>>
         /\ \A k \in DOMAIN data :
              data[k].name = N => data[k].description = <<>>

\* what the search effect leaves when it runs once more on the current state
SearchAgain ==
  SearchEffect(data, searchTerm, expandedIds, highlightedIds, searchMode)

\* C14: a keyword search that runs again on the state it has left, with
\* nothing else changed, leaves the same highlighted-set and the same
\* expanded-set.
C14_KeywordSearchIdempotent ==
  KeywordSearchRan
    => /\ SearchAgain.ran = "keyword"
       /\ SearchAgain.highlightedIds = highlightedIds
       /\ SearchAgain.expandedIds = expandedIds

\* a keyword search that highlighted a node and expanded an ancestor
C14_Witness ==
  /\ KeywordSearchRan
  /\ highlightedIds # {}
  /\ expandedIds # last.expandedBefore
  /\ SearchAgain.expandedIds = expandedIds

\* the keys of a name, in the order of the lookup: the name, and for a name
\* with a '.' the text before its first '.' and the text after it
LookupKeys(name) ==
  LET dot == IndexOfFrom(name, ".", 1)
  IN IF dot = 0 THEN <<name>>
     ELSE <<name, SubSeq(name, 1, dot - 1), SubSeq(name, dot + 1, Len(name))>>

\* the value of the first key that is in the dictionary, the empty text when
\* none is
FirstPresent(dictionary, keys) ==
  LET present == SelectSeq(keys, LAMBDA key : key \in DOMAIN dictionary)
  IN IF present = <<>> THEN <<>> ELSE dictionary[Head(present)]

\* C15: every node's description is the dictionary's value for the first
\* key that is in the dictionary among the full name, the text before the
\* name's first '.' and the text after it, a value that is the empty text
\* included; it is empty when no key is in the dictionary.
C15_DescriptionIsFirstPresentKey ==
  DocumentLoaded
    => \A k \in DOMAIN data :
         data[k].description = FirstPresent(Dictionary, LookupKeys(data[k].name))

\* the rows of the parsed main table that become nodes, and the level and
\* the name C16 gives to such a row: those of cell 3 when the cleaned name of
\* cell 2 is empty and there is a fourth cell, those of cell 2 otherwise
NodeRows == EligibleRows(ParsedTable)

LabelCell(tr) ==
  IF CleanName(ReplaceChar(tr[3], "nbsp", <<" ">>)) = <<>> /\ Len(tr) > 3
    THEN ReplaceChar(tr[4], "nbsp", <<" ">>)
    ELSE ReplaceChar(tr[3], "nbsp", <<" ">>)

LabelLevel(tr) == CountChar(LabelCell(tr), "|")

\* the positions before k of the node rows whose label is at a level
EarlierLabelAtLevel(k, level) ==
  {j \in 1..(k - 1) : LabelLevel(NodeRows[j]) = level}

\* C16: a node's name is the cleaned label, its level the number of '|' in
\* the label, and its parentId the id of the latest earlier node whose label
\* is one level up (0 when there is none), where the label is cell 3 for a
\* row whose cell 2 cleans to the empty text and that has a fourth cell.
C16_ShiftedNameSetsLevel ==
  DocumentLoaded
    => \A k \in DOMAIN data :
         LET up == EarlierLabelAtLevel(k, LabelLevel(NodeRows[k]) - 1)
         IN /\ data[k].name = CleanName(LabelCell(NodeRows[k]))
            /\ data[k].level = LabelLevel(NodeRows[k])
            /\ data[k].parentId =
                 IF up = {} THEN 0 ELSE data[Latest(up)].id

\* the compound name of the segment at a loop state and the next segment
CompoundAt(st) ==
  Segments[st.i + 1] \o <<".">> \o Segments[st.i + 2]

\* the first child of a loop state's current node that matches a text,
\* wrapped in a sequence
FirstChildMatching(st, text) ==
  LET found == SelectSeq(data, LAMBDA d :
                 d.parentId = st.currentParentId /\ NameMatches(d, text))
  IN IF found = <<>> THEN <<>> ELSE <<Head(found)>>

\* C17: where a next segment exists and a child matches the compound of the
\* two segments, the loop consumes both and goes into that child, whether or
\* not a child matches the first segment alone; where no child matches the
\* compound and one matches the segment, it consumes one and goes into that
\* child.
C17_CompoundMatchFirst ==
  PathSearchRan
    => \A n \in DOMAIN LoopStates :
         LET st == LoopStates[n]
             hasNext == st.i + 2 <= Len(Segments)
             compound == IF hasNext THEN FirstChildMatching(st, CompoundAt(st))
                         ELSE <<>>
             single == FirstChildMatching(st, Segments[st.i + 1])
         IN (st.i < Len(Segments) /\ ~st.stopped)
              => /\ compound # <<>>
                      => /\ n < Len(LoopStates)
                         /\ LoopStates[n + 1].i = st.i + 2
                         /\ LoopStates[n + 1].currentParentId = compound[1].id
                 /\ (compound = <<>> /\ single # <<>>)
                      => /\ n < Len(LoopStates)
                         /\ LoopStates[n + 1].i = st.i + 1
                         /\ LoopStates[n + 1].currentParentId = single[1].id

\* a search that took the compound match where another child matched the
\* first segment alone
C17_Witness ==
  /\ PathSearchRan
  /\ \E n \in DOMAIN LoopStates :
       /\ n < Len(LoopStates)
       /\ LoopStates[n].i + 2 <= Len(Segments)
       /\ FirstChildMatching(LoopStates[n], CompoundAt(LoopStates[n])) # <<>>
       /\ FirstChildMatching(LoopStates[n], Segments[LoopStates[n].i + 1])
            # FirstChildMatching(LoopStates[n], CompoundAt(LoopStates[n]))
       /\ LoopStates[n + 1].i = LoopStates[n].i + 2
       /\ highlightedIds = {LoopStates[n + 1].currentParentId}

\* C18: the projection of the current node list and expanded-set returns,
\* and the segment loop of a path search ends within one iteration per
\* segment.
C18_ProjectionAndSearchTerminate ==
  /\ visibleItems(data, expandedIds).returns
  /\ PathSearchRan => Len(LoopStates) <= Len(Segments) + 1

\* a search has just run, in path mode or in keyword mode
SearchRan == PathSearchRan \/ KeywordSearchRan

\* C19: after a search that highlights a node, the projection of the
\* resulting expanded-set returns and holds every node with a highlighted
\* id.
C19_HighlightedNodesAreVisible ==
  (SearchRan /\ highlightedIds # {})
    => LET shown == visibleItems(data, expandedIds)
       IN /\ shown.returns
          /\ \A k \in DOMAIN data :
               data[k].id \in highlightedIds
                 => \E j \in DOMAIN shown.items : shown.items[j] = data[k]

\* C20: the expanded-set and the highlighted-set hold ids of nodes of the
\* current node list only; both are empty when the node list is empty.
C20_SetsHoldCurrentIdsOnly ==
  /\ expandedIds \subseteq NodeIds
  /\ highlightedIds \subseteq NodeIds

\* a child of a loop state's current node whose name equals the segment at
\* that state ignoring case
EqualsSegment(c, st) == ToLowerCase(c.name) = ToLowerCase(Segments[st.i + 1])

\* no child of the current node matches the compound of segments i and i + 1
NoCompoundMatch(st) ==
  st.i + 2 <= Len(Segments)
    => FirstChildMatching(st, CompoundAt(st)) = <<>>

\* C21: in the single match, where a child of the current node has a name
\* equal to the segment ignoring case, the loop consumes one segment and goes
\* into a child whose name equals the segment ignoring case, even if an
\* earlier sibling contains the segment as a substring; the same among the
\* children of the Choice node in the Choice fallback.
C21_ExactNameMatchWins ==
  PathSearchRan
    => \A n \in DOMAIN LoopStates :
         LET st == LoopStates[n]
         IN (st.i < Len(Segments) /\ ~st.stopped)
              => /\ (/\ NoCompoundMatch(st)
                     /\ \E c \in ChildrenAt(st) : EqualsSegment(c, st))
                      => /\ n < Len(LoopStates)
                         /\ LoopStates[n + 1].i = st.i + 1
                         /\ \E c \in ChildrenAt(st) :
                              /\ EqualsSegment(c, st)
                              /\ LoopStates[n + 1].currentParentId = c.id
                 /\ (/\ NoDirectMatch(st)
                     /\ FirstChoice(st) # <<>>
                     /\ \E g \in ChildrenOf(FirstChoice(st)[1]) :
                          EqualsSegment(g, st))
                      => /\ n < Len(LoopStates)
                         /\ LoopStates[n + 1].i = st.i + 1
                         /\ \E g \in ChildrenOf(FirstChoice(st)[1]) :
                              /\ EqualsSegment(g, st)
                              /\ LoopStates[n + 1].currentParentId = g.id

\* a cloud file whose fetch ends in handleDataLoaded, and the viewer showing
\* the node list and the name of a cloud file
Loadable(file) == ~file.blank /\ ~Parsed[file].threw

Shows(file) ==
  /\ fileName = file.name
  /\ data = IF Parsed[file].rawData = <<>> THEN <<>>
            ELSE [i \in DOMAIN Parsed[file].rawData |->
                    FormatItem(Parsed[file].rawData[i])]

\* C22: when cloud files are selected while earlier fetches are in flight,
\* then once no fetch is in flight and the last of them has loaded its file,
\* the node list and the file name shown are those of the selected file
\* (selectedFile), whatever the order the fetches completed in; and
\* isFileLoading is true whenever a fetch is in flight.
C22_LatestSelectionShown ==
  /\ (pending = EmptyBag /\ last.event = "cloud")
       => \A file \in CloudFiles :
            (file.name = selectedFile /\ Loadable(file)) => Shows(file)
  /\ pending # EmptyBag => isFileLoading

\* C23: decodeFilename(encodeFilename(f)) = f for every file name f that is
\* saved, so two different file names have different storage keys, and the
\* list getFiles returns after saveFile(f, c) has the name f.
C23_FilenameRoundTrips ==
  /\ \A i \in DOMAIN saved :
       decodeFilename(encodeFilename(saved[i])) = saved[i]
  /\ \A i, j \in DOMAIN saved :
       saved[i] # saved[j]
         => encodeFilename(saved[i]) # encodeFilename(saved[j])
  /\ (saved # <<>> /\ fileList = getFiles(database))
       => saved[Len(saved)] \in fileList

====
